---- MODULE Spec2Model ----
(***************************************************************************)
(* Task lifecycle manager of PDFTranslate-Team: src/app/tasks.py           *)
(* (TaskManager), src/app/redis_client.py (the three priority lists),      *)
(* src/app/routes/tasks.py (the HTTP handlers that call the manager).      *)
(*                                                                         *)
(* Granularity.  A request handler (create, retry, cancel, delete) is one  *)
(* step.  The queue monitor and every execution (an asyncio task running   *)
(* _lifecycle) advance one await at a time, so handlers, monitor ticks and *)
(* executions interleave.  The end of an execution and its done callback   *)
(* (tasks.py:435) are one step.                                            *)
(*                                                                         *)
(* A run is bounded by its scenario: the ids token_urlsafe hands out, the  *)
(* create requests and provider answers that occur, the number of HTTP     *)
(* requests, and the cap the manager was constructed with.                 *)
(***************************************************************************)
EXTENDS Naturals, Sequences, FiniteSets, Bags, TLC

VARIABLES
    tasks,           \* translation_tasks table: id -> row (DOMAIN = rows that exist)
    issued,          \* ids token_urlsafe has handed out so far
    queues,          \* redis lists tasks:high / tasks:normal / tasks:low
    jobs,            \* TaskManager.jobs: task id -> execution handle
    execs,           \* asyncio tasks running _lifecycle_with_semaphore
    task_semaphore,  \* free permits of TaskManager.task_semaphore
    monitor,         \* position and locals of _process_pending_tasks
    s3_configured,   \* system_settings holds access key, secret key and bucket
    s3_calls,        \* delete calls the last delete_task sent to the blob store
    clock,           \* datetime.utcnow()
    requests,        \* HTTP requests handled so far
    max_concurrent_tasks,  \* TaskManager.max_concurrent_tasks
    scenario,        \* the bounded inputs of this run (never changes)
    returned,        \* what the step just taken returned, if it returned
    user_tasks_cache, \* redis keys user_tasks:{owner}: the cached list, if any
    sent             \* task.update messages the step just taken handed to
                     \* task_ws_manager.send_task_update

vars == <<tasks, issued, queues, jobs, execs, task_semaphore, monitor,
          s3_configured, s3_calls, clock, requests, max_concurrent_tasks,
          scenario, returned, user_tasks_cache, sent>>

----------------------------------------------------------------------------
(* Bounds of the model *)

\* HTTP requests (create, retry, cancel, delete, settings) in one run
MaxRequests == 2

ExecIds == {1, 2, 3}
Users == {"u1", "u2"}
Times == {1, 2}

NULL == "NULL"

Priorities == <<"high", "normal", "low">>
PrioritySet == {Priorities[i] : i \in 1..Len(Priorities)}

\* a value of the form field priority that is none of the three tiers, and the
\* Redis lists tasks:{priority} that exist or come to exist
OtherPriorities == {"urgent"}

ListNames == PrioritySet \cup OtherPriorities

Terminal == {"completed", "failed", "canceled"}

\* what a create request carries: owner, priority, taskType
CreateInputs ==
    { [owner |-> "u1", priority |-> "high",   task_type |-> "translation"],
      [owner |-> "u1", priority |-> "normal", task_type |-> "parsing"],
      [owner |-> "u2", priority |-> "low",    task_type |-> "parse_and_translate"] }

\* overall_progress values a provider reports
ProgressEvents == {50, 100}

\* files translate_pdf leaves behind on success
ResultFiles == { {}, {"mono"}, {"mono", "dual", "glossary"} }

\* The runs that are explored.  cap: the value TaskManager was constructed
\* with (tasks.py:25 has 3; the scheduler only compares against it, and the
\* runs use caps that one or two tasks already reach).  answers, events,
\* files: what the providers and the settings tables may answer.  uploads:
\* whether the uploaded file has content.  readers: the users who list.
\* redis_errors: whether, when a Redis call fails, the next one fails too.
\* new_caps: the maxConcurrentTasks the administrator may ask for.
Scenarios ==
    { [ name |-> "workflows", cap |-> 1, ids |-> {"t1", "t2"},
        inputs |-> CreateInputs, requests |-> MaxRequests,
        answers |-> BOOLEAN, events |-> ProgressEvents, files |-> ResultFiles,
        uploads |-> {TRUE}, readers |-> {}, redis_errors |-> BOOLEAN,
        new_caps |-> {} ],
      [ name |-> "requests", cap |-> 1, ids |-> {"t1", "t2"},
        inputs |-> {[owner |-> "u1", priority |-> "normal",
                     task_type |-> "translation"]},
        requests |-> MaxRequests + 1,
        answers |-> {TRUE}, events |-> {100}, files |-> {{"mono", "dual"}},
        uploads |-> BOOLEAN, readers |-> {"u1"}, redis_errors |-> {},
        new_caps |-> {} ],
      [ name |-> "concurrent", cap |-> 2, ids |-> {"t1"},
        inputs |-> {[owner |-> "u1", priority |-> pr,
                     task_type |-> "translation"] :
                       pr \in {"normal"} \cup OtherPriorities},
        requests |-> MaxRequests,
        answers |-> BOOLEAN, events |-> {100}, files |-> {{"mono", "dual"}},
        uploads |-> {TRUE}, readers |-> {}, redis_errors |-> {},
        new_caps |-> {1, 3} ] }

TaskIds == UNION {sc.ids : sc \in Scenarios}

----------------------------------------------------------------------------
(* Helpers *)

Empty == [x \in {} |-> NULL]

Remove(f, k) == [x \in DOMAIN f \ {k} |-> f[x]]

Put(f, k, v) == [x \in DOMAIN f \cup {k} |-> IF x = k THEN v ELSE f[x]]

Min(S) == CHOOSE x \in S : \A y \in S : x <= y

SeqRemoveAll(s, v) == SelectSeq(s, LAMBDA x : x # v)

InSeq(s, v) == \E i \in 1..Len(s) : s[i] = v

TotalQueued == Len(queues["high"]) + Len(queues["normal"]) + Len(queues["low"])

Queued(id) == \E p \in PrioritySet : InSeq(queues[p], id)

\* s3.get_presigned_url(key)
get_presigned_url(key) == IF key = NULL THEN NULL ELSE "url:" \o key

utcnow == clock

\* secrets.token_urlsafe(6): an id no task has had (the first unused one)
token_urlsafe == CHOOSE t \in scenario.ids \ issued : TRUE

\* the next reading of the clock after a completion was stamped
Advance(c) == IF c + 1 \in Times THEN c + 1 ELSE c

----------------------------------------------------------------------------
(* The task row *)

TranslationTask(owner, priority, task_type) ==
    [ owner_id                   |-> owner,
      priority                   |-> priority,
      task_type                  |-> task_type,
      status                     |-> "queued",
      progress                   |-> 0,
      error                      |-> NULL,
      completed_at               |-> <<>>,
      input_s3_key               |-> "input",
      output_s3_key              |-> NULL,
      output_url                 |-> NULL,
      mono_output_s3_key         |-> NULL,
      mono_output_url            |-> NULL,
      dual_output_s3_key         |-> NULL,
      dual_output_url            |-> NULL,
      glossary_output_s3_key     |-> NULL,
      glossary_output_url        |-> NULL,
      zip_output_s3_key          |-> NULL,
      zip_output_url             |-> NULL,
      markdown_output_s3_key     |-> NULL,
      markdown_output_url        |-> NULL,
      translated_markdown_s3_key |-> NULL,
      translated_markdown_url    |-> NULL,
      mineru_task_id             |-> NULL ]

\* for key, value in updates.items(): setattr(task, key, value)
SetAttrs(row, updates) ==
    [f \in DOMAIN row |-> IF f \in DOMAIN updates THEN updates[f] ELSE row[f]]

\* variant of CompletedRule: every completion stamps completed_at anew
CompletedRuleRestamps(row) ==
    IF row.status = "completed"
    THEN [row EXCEPT !.progress = 100, !.completed_at = <<clock>>]
    ELSE row

\* variant of CompletedRule: the row is committed as the updates left it
CompletedRuleSkipped(row) == row

\* if task.status == 'completed': progress = 100, completed_at = completed_at or utcnow()
CompletedRule(row) ==
    IF row.status = "completed"
    THEN [row EXCEPT !.progress = 100,
                     !.completed_at = IF row.completed_at # <<>>
                                      THEN row.completed_at ELSE <<utcnow>>]
    ELSE row

\* variant of _update_task: a missing row is inserted instead of skipped
_update_task_upsert(task_id, updates) ==
    IF task_id \notin DOMAIN tasks
    THEN Put(tasks, task_id,
             SetAttrs(TranslationTask("u1", "normal", "translation"), updates))
    ELSE [tasks EXCEPT ![task_id] = CompletedRule(SetAttrs(tasks[task_id], updates))]

\* TaskManager._update_task: the table after the call (no row: nothing is written)
_update_task(task_id, updates) ==
    IF task_id \notin DOMAIN tasks
    THEN tasks
    ELSE [tasks EXCEPT ![task_id] = CompletedRule(SetAttrs(tasks[task_id], updates))]

\* the clock moves when _update_task stamped completed_at
ClockAfter(newTasks) ==
    IF \E id \in DOMAIN newTasks :
          /\ id \in DOMAIN tasks
          /\ newTasks[id].completed_at # tasks[id].completed_at
          /\ newTasks[id].completed_at # <<>>
    THEN Advance(clock) ELSE clock

----------------------------------------------------------------------------
(* Priority lists (RedisClient) *)

\* variant of enqueue_task: the id is pushed at the end the pop takes from
enqueue_task_rpush(q, task_id, priority) ==
    [q EXCEPT ![priority] = q[priority] \o <<task_id>>]

\* lpush
enqueue_task(q, task_id, priority) ==
    [q EXCEPT ![priority] = <<task_id>> \o q[priority]]

\* rpop: the id handed back, NULL on an empty list
dequeue_task_id(q, priority) ==
    IF Len(q[priority]) = 0 THEN NULL ELSE q[priority][Len(q[priority])]

dequeue_task(q, priority) ==
    IF Len(q[priority]) = 0 THEN q
    ELSE [q EXCEPT ![priority] = SubSeq(q[priority], 1, Len(q[priority]) - 1)]

\* lrem key 0 id on each of the three lists
remove_task_from_all_queues(q, task_id) ==
    [p \in DOMAIN q |->
        IF p \in PrioritySet THEN SeqRemoveAll(q[p], task_id) ELSE q[p]]

----------------------------------------------------------------------------
(* Executions and the handle map *)

NewExec(task_id) ==
    [ task          |-> task_id,
      pc            |-> "new",
      cancelled     |-> FALSE,
      permit        |-> FALSE,
      task_type     |-> NULL,
      last_progress |-> 0,
      files         |-> {},
      has_input     |-> FALSE,
      calls         |-> 0,
      units_done    |-> 0 ]

FreeExec(ex) == Min(ExecIds \ DOMAIN ex)

\* TaskManager._cancel_job on the pair (jobs, execs)
_cancel_job(st, task_id) ==
    IF task_id \in DOMAIN st.jobs
    THEN [ jobs  |-> Remove(st.jobs, task_id),
           execs |-> [st.execs EXCEPT ![st.jobs[task_id]].cancelled = TRUE] ]
    ELSE st

\* variant of _schedule: the test of the cap is left out
_schedule_uncapped(st, task_id) ==
    LET c == _cancel_job(st, task_id)
        e == FreeExec(c.execs)
    IN [ jobs  |-> Put(c.jobs, task_id, e),
         execs |-> Put(c.execs, e, NewExec(task_id)) ]

\* TaskManager._schedule on the pair (jobs, execs)
_schedule(st, task_id) ==
    LET c == _cancel_job(st, task_id) IN
    IF Cardinality(DOMAIN c.jobs) >= max_concurrent_tasks
    THEN c
    ELSE LET e == FreeExec(c.execs) IN
         [ jobs  |-> Put(c.jobs, task_id, e),
           execs |-> Put(c.execs, e, NewExec(task_id)) ]

Sched == [jobs |-> jobs, execs |-> execs]

\* an execution can be created without running out of ExecIds
CanSpawn == ExecIds \ DOMAIN execs # {}

\* the step is in the middle of a coroutine: nothing returns
NoReturn == [op |-> NULL, task_id |-> NULL, value |-> NULL, at |-> NULL]

\* task_ws_manager.send_task_update(owner_id, task.to_dict())
task_update(task_id, row) ==
    [ type |-> "task.update", owner |-> row.owner_id, id |-> task_id,
      status |-> row.status, progress |-> row.progress ]

\* the step sends no message and touches no cached list
Quiet == sent' = {} /\ UNCHANGED user_tasks_cache

\* no key user_tasks:{owner}; and the key holding the ids of a list
NoList == [cached |-> FALSE, ids |-> {}]

CachedList(ids) == [cached |-> TRUE, ids |-> ids]

\* redis.invalidate_user_tasks_cache(owner)
invalidate_user_tasks_cache(cache, owner) == [cache EXCEPT ![owner] = NoList]

\* the tail of _update_task(task_id, ...) when newTasks is the table it
\* committed: invalidate the owner's list, send the row; nothing without a row
Published(task_id, newTasks) ==
    IF task_id \in DOMAIN tasks
    THEN /\ user_tasks_cache' =
               invalidate_user_tasks_cache(user_tasks_cache, tasks[task_id].owner_id)
         /\ sent' = {task_update(task_id, newTasks[task_id])}
    ELSE Quiet

\* a manager method returns value to its route
Returns(op, task_id, value) ==
    returned' = [op |-> op, task_id |-> task_id, value |-> value, at |-> NULL]

\* one more HTTP request is handled
Request == requests < scenario.requests /\ requests' = requests + 1

----------------------------------------------------------------------------
Init ==
    /\ tasks = Empty
    /\ issued = {}
    /\ queues = [p \in ListNames |-> <<>>]
    /\ jobs = Empty
    /\ execs = Empty
    /\ scenario \in Scenarios
    /\ max_concurrent_tasks = scenario.cap
    /\ task_semaphore = max_concurrent_tasks
    /\ monitor = [pc |-> "sleep", priority |-> NULL, task_id |-> NULL]
    /\ s3_configured = TRUE
    /\ s3_calls = EmptyBag
    /\ clock = 1
    /\ requests = 0
    /\ returned = NoReturn
    /\ user_tasks_cache = [u \in Users |-> NoList]
    /\ sent = {}

----------------------------------------------------------------------------
(* Request handlers *)

\* the row create_task inserts; has_file: file_data is not empty
NewTask(inp, has_file) ==
    [TranslationTask(inp.owner, inp.priority, inp.task_type)
       EXCEPT !.input_s3_key = IF has_file THEN "input" ELSE NULL]

\* POST /tasks -> TaskManager.create_task(owner, payload, file_data).
\* With file data, get_s3_config(strict=True) raises MissingS3Configuration
\* before anything is stored and the route answers 503.
create_task(task_id, inp, has_file) ==
    /\ Request
    /\ task_id \in scenario.ids \ issued
    /\ task_id = token_urlsafe
    /\ IF has_file /\ ~s3_configured
       THEN /\ Returns("create_task", NULL, "MissingS3Configuration")
            /\ Quiet
            /\ UNCHANGED <<tasks, issued, queues, jobs, execs>>
       ELSE /\ CanSpawn
            /\ issued' = issued \cup {task_id}
            /\ tasks' = Put(tasks, task_id, NewTask(inp, has_file))
            /\ sent' = {task_update(task_id, NewTask(inp, has_file))}
            /\ UNCHANGED user_tasks_cache
            /\ queues' = enqueue_task(queues, task_id, inp.priority)
            /\ LET s == _schedule(Sched, task_id) IN
                 /\ jobs' = s.jobs
                 /\ execs' = s.execs
            /\ Returns("create_task", task_id, "queued")
    /\ UNCHANGED <<task_semaphore, monitor, s3_configured, s3_calls, clock,
                   max_concurrent_tasks, scenario>>

\* the row after TaskManager.retry_task
RetryRow(row) ==
    [row EXCEPT !.status = "queued",
                !.progress = 0,
                !.error = NULL,
                !.output_url = NULL,
                !.output_s3_key = NULL,
                !.mono_output_s3_key = NULL,
                !.mono_output_url = NULL,
                !.dual_output_s3_key = NULL,
                !.dual_output_url = NULL,
                !.glossary_output_s3_key = NULL,
                !.glossary_output_url = NULL,
                !.markdown_output_s3_key = NULL,
                !.markdown_output_url = NULL,
                !.translated_markdown_s3_key = NULL,
                !.translated_markdown_url = NULL,
                !.mineru_task_id = NULL,
                !.completed_at = <<>>]

\* PATCH /tasks/{id} action=retry: mutate_task checks the owner, then retry_task
retry_task(task_id, user) ==
    /\ Request
    /\ task_id \in DOMAIN tasks
    /\ tasks[task_id].owner_id = user
    /\ CanSpawn
    /\ tasks' = [tasks EXCEPT ![task_id] = RetryRow(@)]
    /\ queues' = enqueue_task(queues, task_id, tasks[task_id].priority)
    /\ LET s == _schedule(Sched, task_id) IN
         /\ jobs' = s.jobs
         /\ execs' = s.execs
    /\ Returns("retry_task", task_id, "queued")
    /\ Quiet
    /\ UNCHANGED <<issued, task_semaphore, monitor, s3_configured, s3_calls, clock,
                   max_concurrent_tasks, scenario>>

\* variant of CancelRow: progress is left where the execution put it
CancelRowKeepsProgress(row) == [row EXCEPT !.status = "canceled"]

\* the row after TaskManager.cancel_task
CancelRow(row) == [row EXCEPT !.status = "canceled", !.progress = 0]

\* PATCH /tasks/{id} action=cancel: mutate_task checks the owner, then cancel_task
cancel_task(task_id, user) ==
    /\ Request
    /\ task_id \in DOMAIN tasks
    /\ tasks[task_id].owner_id = user
    /\ LET c == _cancel_job(Sched, task_id) IN
         /\ jobs' = c.jobs
         /\ execs' = c.execs
    /\ tasks' = [tasks EXCEPT ![task_id] = CancelRow(@)]
    /\ Returns("cancel_task", task_id, "canceled")
    /\ Quiet
    /\ UNCHANGED <<issued, queues, task_semaphore, monitor, s3_configured,
                   s3_calls, clock, max_concurrent_tasks, scenario>>

\* variant of RowKeys: the zip archive's key is not collected
RowKeysWithoutZip(row) ==
    << row.input_s3_key, row.output_s3_key, row.mono_output_s3_key,
       row.dual_output_s3_key, row.glossary_output_s3_key,
       row.markdown_output_s3_key, row.translated_markdown_s3_key >>

\* keys delete_task collects from the row
RowKeys(row) ==
    << row.input_s3_key, row.output_s3_key, row.mono_output_s3_key,
       row.dual_output_s3_key, row.glossary_output_s3_key,
       row.zip_output_s3_key, row.markdown_output_s3_key,
       row.translated_markdown_s3_key >>

\* unique_keys = {key for key in s3_keys if key}
UniqueKeys(row) ==
    {RowKeys(row)[i] : i \in 1..Len(RowKeys(row))} \ {NULL}

\* the calls delete_task sends to the blob store for a row it deleted
DeleteCalls(task_id, row) ==
    SetToBag({<<"delete_file", task_id, k>> : k \in UniqueKeys(row)})
    (+) SetToBag({<<"delete_prefix", task_id, "outputs">>})
    (+) (IF row.mineru_task_id # NULL
         THEN SetToBag({<<"delete_prefix", task_id, "mineru">>})
         ELSE EmptyBag)

\* the row delete_task selects: WHERE id = task_id AND owner_id = owner_id
DeleteFinds(task_id, owner_id) ==
    task_id \in DOMAIN tasks /\ tasks[task_id].owner_id = owner_id

\* what TaskManager.delete_task returns
delete_result(task_id, owner_id) ==
    IF DeleteFinds(task_id, owner_id) THEN "deleted" ELSE "not_found"

\* DELETE /tasks/{id} -> TaskManager.delete_task(task_id, user.id);
\* s3_client_ok: get_s3_config and get_s3 did not raise (tasks.py:356-363)
delete_task(task_id, owner_id, s3_client_ok) ==
    /\ Request
    /\ task_id \in issued
    /\ LET c == _cancel_job(Sched, task_id) IN
         /\ jobs' = c.jobs
         /\ execs' = c.execs
    /\ queues' = remove_task_from_all_queues(queues, task_id)
    /\ IF DeleteFinds(task_id, owner_id)
       THEN /\ tasks' = Remove(tasks, task_id)
            /\ s3_calls' = IF s3_configured /\ s3_client_ok
                           THEN DeleteCalls(task_id, tasks[task_id])
                           ELSE EmptyBag
       ELSE UNCHANGED <<tasks, s3_calls>>
    /\ user_tasks_cache' =
         IF DeleteFinds(task_id, owner_id)
         THEN invalidate_user_tasks_cache(user_tasks_cache, owner_id)
         ELSE user_tasks_cache
    /\ sent' = {}
    /\ Returns("delete_task", task_id, delete_result(task_id, owner_id))
    /\ UNCHANGED <<issued, task_semaphore, monitor, s3_configured, clock,
                   max_concurrent_tasks, scenario>>

\* PUT /settings/s3: the administrator fills in or blanks the credentials
update_s3_settings(configured) ==
    /\ Request
    /\ s3_configured # configured
    /\ s3_configured' = configured
    /\ returned' = NoReturn
    /\ Quiet
    /\ UNCHANGED <<tasks, issued, queues, jobs, execs, task_semaphore, monitor,
                   s3_calls, clock, max_concurrent_tasks, scenario>>

\* PUT /settings/performance with maxConcurrentTasks = n: the setting row is
\* committed and the admin channel is told, then task_manager.reload_config()
\* raises AttributeError, TaskManager having no such method: the route answers
\* 500 and the manager is as it was
update_performance_settings(n) ==
    /\ Request
    /\ returned' = [op |-> "update_performance_settings", task_id |-> NULL,
                    value |-> "AttributeError", at |-> NULL]
    /\ Quiet
    /\ UNCHANGED <<tasks, issued, queues, jobs, execs, task_semaphore, monitor,
                   s3_configured, s3_calls, clock, max_concurrent_tasks, scenario>>

\* ids of the rows owner_id owns
OwnedBy(owner_id) == {id \in DOMAIN tasks : tasks[id].owner_id = owner_id}

\* what TaskManager.list_tasks(owner_id) returns without filters: the cached
\* ids that still have a row, or on a miss the owner's rows
list_result(owner_id) ==
    IF user_tasks_cache[owner_id].cached
    THEN user_tasks_cache[owner_id].ids \cap DOMAIN tasks
    ELSE OwnedBy(owner_id)

\* GET /tasks -> TaskManager.list_tasks(user.id); a miss fills the cache
list_tasks(owner_id) ==
    /\ Request
    /\ returned' = [op |-> "list_tasks", task_id |-> NULL,
                    value |-> list_result(owner_id), at |-> owner_id]
    /\ user_tasks_cache' =
         IF user_tasks_cache[owner_id].cached THEN user_tasks_cache
         ELSE [user_tasks_cache EXCEPT ![owner_id] = CachedList(OwnedBy(owner_id))]
    /\ sent' = {}
    /\ UNCHANGED <<tasks, issued, queues, jobs, execs, task_semaphore, monitor,
                   s3_configured, s3_calls, clock, max_concurrent_tasks, scenario>>

\* the TTL of user_tasks:{owner} (setex, 300 s) runs out
ExpireUserTasks(owner_id) ==
    /\ user_tasks_cache[owner_id].cached
    /\ user_tasks_cache' = invalidate_user_tasks_cache(user_tasks_cache, owner_id)
    /\ sent' = {}
    /\ returned' = NoReturn
    /\ UNCHANGED <<tasks, issued, queues, jobs, execs, task_semaphore, monitor,
                   s3_configured, s3_calls, clock, requests, max_concurrent_tasks,
                   scenario>>

----------------------------------------------------------------------------
(* Queue monitor: _queue_monitor_loop / _process_pending_tasks *)

\* variant of _get_next_priority: the tiers are tried from low to high
_get_next_priority_low_first(q) ==
    IF Len(q["low"]) > 0 THEN "low"
    ELSE IF Len(q["normal"]) > 0 THEN "normal"
    ELSE IF Len(q["high"]) > 0 THEN "high"
    ELSE "normal"

\* TaskManager._get_next_priority
_get_next_priority(q) ==
    IF Len(q["high"]) > 0 THEN "high"
    ELSE IF Len(q["normal"]) > 0 THEN "normal"
    ELSE IF Len(q["low"]) > 0 THEN "low"
    ELSE "normal"

\* while len(self.jobs) < max: priority = await self._get_next_priority()
\* (a tick that finds the three lists empty pops nothing and changes nothing)
MonitorPick ==
    /\ returned' = NoReturn
    /\ Quiet
    /\ monitor.pc = "sleep"
    /\ TotalQueued > 0
    /\ Cardinality(DOMAIN jobs) < max_concurrent_tasks
    /\ monitor' = [monitor EXCEPT !.pc = "dequeue",
                                  !.priority = _get_next_priority(queues)]
    /\ UNCHANGED <<tasks, issued, queues, jobs, execs, task_semaphore,
                   s3_configured, s3_calls, clock, requests, max_concurrent_tasks, scenario>>

\* task_id = await redis.dequeue_task(priority); an empty list ends the tick
MonitorDequeue ==
    /\ returned' = NoReturn
    /\ Quiet
    /\ monitor.pc = "dequeue"
    /\ LET id == dequeue_task_id(queues, monitor.priority) IN
         monitor' = IF id = NULL
                    THEN [pc |-> "sleep", priority |-> NULL, task_id |-> NULL]
                    ELSE [monitor EXCEPT !.pc = "schedule", !.task_id = id]
    /\ queues' = dequeue_task(queues, monitor.priority)
    /\ UNCHANGED <<tasks, issued, jobs, execs, task_semaphore, s3_configured,
                   s3_calls, clock, requests, max_concurrent_tasks, scenario>>

\* self._schedule(task_id), then the loop tests the cap again
MonitorSchedule ==
    /\ returned' = NoReturn
    /\ Quiet
    /\ monitor.pc = "schedule"
    /\ CanSpawn
    /\ LET s == _schedule(Sched, monitor.task_id) IN
         /\ jobs' = s.jobs
         /\ execs' = s.execs
    /\ monitor' = [pc |-> "sleep", priority |-> NULL, task_id |-> NULL]
    /\ UNCHANGED <<tasks, issued, queues, task_semaphore, s3_configured,
                   s3_calls, clock, requests, max_concurrent_tasks, scenario>>

----------------------------------------------------------------------------
(* Executions: _lifecycle_with_semaphore / _lifecycle *)

Running(e) == e \in DOMAIN execs /\ ~execs[e].cancelled

At(e, pc) == Running(e) /\ execs[e].pc = pc

\* the execution moves to its next await
Continues(e, rec) ==
    /\ execs' = [execs EXCEPT ![e] = rec]
    /\ returned' = NoReturn
    /\ UNCHANGED <<issued, queues, jobs, task_semaphore, monitor, s3_configured,
                   s3_calls, requests, max_concurrent_tasks, scenario>>

\* the execution goes on: one _update_task, then the next await
Goes(e, newTasks, rec) ==
    /\ tasks' = newTasks
    /\ clock' = ClockAfter(newTasks)
    /\ Published(execs[e].task, newTasks)
    /\ Continues(e, rec)

\* the execution goes on without a call of _update_task
GoesSilently(e, rec) ==
    /\ UNCHANGED <<tasks, clock>>
    /\ Quiet
    /\ Continues(e, rec)

\* how _lifecycle_with_semaphore came to its end
Outcome(e) ==
    IF execs[e].cancelled THEN "cancelled"
    ELSE IF execs[e].task \notin DOMAIN tasks THEN "no_row"
    ELSE "done"

\* _lifecycle_with_semaphore returns: the permit goes back, and the done
\* callback runs self.jobs.pop(task_id, None)
Finishes(e) ==
    /\ returned' = [op |-> "_lifecycle", task_id |-> execs[e].task,
                    value |-> Outcome(e), at |-> execs[e].pc]
    /\ execs' = Remove(execs, e)
    /\ jobs' = Remove(jobs, execs[e].task)
    /\ task_semaphore' = IF execs[e].permit THEN task_semaphore + 1
                         ELSE task_semaphore
    /\ UNCHANGED <<issued, queues, monitor, s3_configured, s3_calls, requests,
                   max_concurrent_tasks, scenario>>

\* the execution ends with a last _update_task
Ends(e, newTasks) ==
    /\ tasks' = newTasks
    /\ clock' = ClockAfter(newTasks)
    /\ Published(execs[e].task, newTasks)
    /\ Finishes(e)

\* the execution ends without a call of _update_task
EndsSilently(e) ==
    /\ UNCHANGED <<tasks, clock>>
    /\ Quiet
    /\ Finishes(e)

Failed(err) == [status |-> "failed", error |-> err, progress |-> 0]

\* an entry that takes a permit without waiting for one to be free
AcquireSemaphoreWithoutWaiting(e) ==
    /\ At(e, "new")
    /\ task_semaphore' = task_semaphore - 1
    /\ execs' = [execs EXCEPT ![e].permit = TRUE, ![e].pc = "begin"]
    /\ returned' = NoReturn
    /\ Quiet
    /\ UNCHANGED <<tasks, issued, queues, jobs, monitor, s3_configured,
                   s3_calls, clock, requests, max_concurrent_tasks, scenario>>

\* async with self.task_semaphore
AcquireSemaphore(e) ==
    /\ At(e, "new")
    /\ task_semaphore > 0
    /\ task_semaphore' = task_semaphore - 1
    /\ execs' = [execs EXCEPT ![e].permit = TRUE, ![e].pc = "begin"]
    /\ returned' = NoReturn
    /\ Quiet
    /\ UNCHANGED <<tasks, issued, queues, jobs, monitor, s3_configured,
                   s3_calls, clock, requests, max_concurrent_tasks, scenario>>

\* variant of ObserveCancel: the cancellation is handled as any other error
ObserveCancelAsError(e) ==
    /\ e \in DOMAIN execs
    /\ execs[e].cancelled
    /\ Ends(e, _update_task(execs[e].task, Failed("cancelled")))

\* job.cancel() reaches the execution at its next await: CancelledError, return
ObserveCancel(e) ==
    /\ e \in DOMAIN execs
    /\ execs[e].cancelled
    /\ EndsSilently(e)

\* _lifecycle up to the workflow: status='processing', progress=5; get_task;
\* get_s3_config(strict=True)
FirstStage(task_type) ==
    IF task_type = "parsing" THEN "p_prepare"
    ELSE IF task_type = "parse_and_translate" THEN "pt_prepare"
    ELSE "t_download"

LifecycleBegin(e) ==
    /\ At(e, "begin")
    /\ LET id == execs[e].task
           written == _update_task(id, [status |-> "processing", progress |-> 5])
       IN
       IF id \notin DOMAIN written
       THEN Ends(e, written)          \* task = await self.get_task(...): None
       ELSE Goes(e, written,
                 [execs[e] EXCEPT
                    !.task_type = written[id].task_type,
                    !.has_input = written[id].input_s3_key # NULL,
                    !.pc = IF s3_configured THEN FirstStage(written[id].task_type)
                           ELSE "missing_s3"])

\* except MissingS3Configuration
LifecycleMissingS3(e) ==
    /\ At(e, "missing_s3")
    /\ Ends(e, _update_task(execs[e].task, Failed("missing_s3")))

----------------------------------------------------------------------------
(* _lifecycle_translation *)

\* no input key: Exception; else the download, then progress=15
TranslationDownload(e) ==
    /\ At(e, "t_download")
    /\ IF execs[e].has_input
       THEN Goes(e, _update_task(execs[e].task, [progress |-> 15]),
                 [execs[e] EXCEPT !.pc = "t_resolve"])
       ELSE Ends(e, _update_task(execs[e].task, Failed("crashed")))

\* the provider row is gone or disabled: RuntimeError; else progress=25
TranslationResolve(e, provider_ok) ==
    /\ At(e, "t_resolve")
    /\ IF provider_ok
       THEN Goes(e, _update_task(execs[e].task, [progress |-> 25]),
                 [execs[e] EXCEPT !.pc = "t_prepare"])
       ELSE Ends(e, _update_task(execs[e].task, Failed("crashed")))

TranslationPrepare(e) ==
    /\ At(e, "t_prepare")
    /\ Goes(e, _update_task(execs[e].task, [progress |-> 30]),
            [execs[e] EXCEPT !.pc = "t_translate", !.last_progress = 30])

\* _update_task(progress=30) commits and a Redis call of its tail raises: the
\* exception leaves the workflow and `except Exception` in _lifecycle calls
\* _update_task(status='failed', ...), whose tail raises again or does not
TranslationPrepareRedisError(e, again) ==
    /\ At(e, "t_prepare")
    /\ execs[e].task \in DOMAIN tasks
    /\ LET id == execs[e].task
           written == _update_task(id, [progress |-> 30])
           failed == [written EXCEPT
                        ![id] = CompletedRule(SetAttrs(@, Failed("redis_error")))]
       IN /\ tasks' = failed
          /\ clock' = ClockAfter(failed)
          /\ IF again THEN Quiet ELSE Published(id, failed)
          /\ Finishes(e)

\* handle_progress: target_progress = 30 + int(50 * (overall / 100))
TargetProgress(overall) == 30 + ((50 * overall) \div 100)

Max(a, b) == IF a >= b THEN a ELSE b

\* handle_progress(event); new_message: the message differs from last_message
TranslationProgress(e, overall, new_message) ==
    /\ At(e, "t_translate")
    /\ ~(TargetProgress(overall) <= execs[e].last_progress /\ ~new_message)
    /\ LET lp == Max(execs[e].last_progress, TargetProgress(overall)) IN
       Goes(e, _update_task(execs[e].task, [progress |-> lp]),
            [execs[e] EXCEPT !.last_progress = lp])

\* translate_pdf returned: failure, or success and progress=80
TranslationReturned(e, success) ==
    /\ At(e, "t_translate")
    /\ IF success
       THEN Goes(e, _update_task(execs[e].task, [progress |-> 80]),
                 [execs[e] EXCEPT !.pc = "t_upload"])
       ELSE Ends(e, _update_task(execs[e].task, Failed("provider_error")))

\* variant of TranslationUpload: the test for a primary output is left out
TranslationUploadUnchecked(e, files) ==
    /\ At(e, "t_upload")
    /\ Goes(e, _update_task(execs[e].task, [progress |-> 85]),
            [execs[e] EXCEPT !.pc = "t_complete", !.files = files])

\* upload_variant for mono, dual, glossary; none of mono and dual: failed
TranslationUpload(e, files) ==
    /\ At(e, "t_upload")
    /\ IF files \cap {"mono", "dual"} = {}
       THEN Ends(e, _update_task(execs[e].task, Failed("no_output")))
       ELSE Goes(e, _update_task(execs[e].task, [progress |-> 85]),
                 [execs[e] EXCEPT !.pc = "t_complete", !.files = files])

KeyOf(files, kind) == IF kind \in files THEN kind ELSE NULL

TranslationOutputs(files) ==
    LET mono == KeyOf(files, "mono")
        dual == KeyOf(files, "dual")
        glossary == KeyOf(files, "glossary")
        primary == IF dual # NULL THEN dual ELSE mono
    IN [ status                 |-> "completed",
         output_s3_key          |-> primary,
         output_url             |-> get_presigned_url(primary),
         mono_output_s3_key     |-> mono,
         mono_output_url        |-> get_presigned_url(mono),
         dual_output_s3_key     |-> dual,
         dual_output_url        |-> get_presigned_url(dual),
         glossary_output_s3_key |-> glossary,
         glossary_output_url    |-> get_presigned_url(glossary),
         error                  |-> NULL ]

TranslationComplete(e) ==
    /\ At(e, "t_complete")
    /\ Ends(e, _update_task(execs[e].task, TranslationOutputs(execs[e].files)))

----------------------------------------------------------------------------
(* parse_pdf_to_markdown as driven by _lifecycle_parsing and by the first  *)
(* half of _lifecycle_parse_and_translate                                  *)

Parsing(e) == execs[e].task_type = "parsing"

\* the two progress callbacks: int(progress), and 5 + int(progress * 0.45)
ParseProgress(e, progress) ==
    IF Parsing(e) THEN progress ELSE 5 + ((progress * 45) \div 100)

Stage(e, parsing_pc, pt_pc) == IF Parsing(e) THEN parsing_pc ELSE pt_pc

\* no input key: Exception; else progress=10 (parsing) or progress=5
\* (parse_and_translate)
ParsePrepare(e) ==
    /\ At(e, "p_prepare") \/ At(e, "pt_prepare")
    /\ IF execs[e].has_input
       THEN Goes(e, _update_task(execs[e].task,
                                 [progress |-> IF Parsing(e) THEN 10 ELSE 5]),
                 [execs[e] EXCEPT !.pc = "p_credentials"])
       ELSE Ends(e, _update_task(execs[e].task, Failed("crashed")))

\* _resolve_mineru_credentials raises, or the first event (5) is emitted
ParseSubmit(e, token_ok) ==
    /\ At(e, "p_credentials")
    /\ IF token_ok
       THEN Goes(e, _update_task(execs[e].task,
                                 [progress |-> ParseProgress(e, 5)]),
                 [execs[e] EXCEPT !.pc = "p_submitted"])
       ELSE Ends(e, _update_task(execs[e].task, Failed("crashed")))

\* submit_parse_task fails, or the event (10, mineru_task_id) is emitted
ParseSubmitted(e, submit_ok) ==
    /\ At(e, "p_submitted")
    /\ IF submit_ok
       THEN Goes(e, _update_task(execs[e].task,
                                 [progress |-> ParseProgress(e, 10),
                                  mineru_task_id |-> "mineru"]),
                 [execs[e] EXCEPT !.pc = "p_poll", !.last_progress = 0])
       ELSE Ends(e, _update_task(execs[e].task, Failed("provider_error")))

PollStatus == {"running", "completed", "failed"}

\* one round of MinerUClient.wait_for_completion
ParsePoll(e, status, progress) ==
    /\ At(e, "p_poll")
    /\ LET rec == [execs[e] EXCEPT
                      !.last_progress = progress,
                      !.pc = IF status = "completed" THEN "p_result"
                             ELSE IF status = "failed" THEN "p_failed"
                             ELSE "p_poll"]
       IN IF progress # execs[e].last_progress
          THEN Goes(e, _update_task(execs[e].task,
                                    [progress |-> ParseProgress(e, progress)]),
                    rec)
          ELSE GoesSilently(e, rec)

\* MinerUAPIError("Task failed"): parse_pdf_to_markdown returns success = False
ParseFailed(e) ==
    /\ At(e, "p_failed")
    /\ Ends(e, _update_task(execs[e].task, Failed("provider_error")))

\* no markdown in the response, or the last event (100) is emitted
ParseResult(e, has_markdown, has_zip) ==
    /\ At(e, "p_result")
    /\ IF has_markdown
       THEN Goes(e, _update_task(execs[e].task,
                                 [progress |-> ParseProgress(e, 100)]),
                 [execs[e] EXCEPT !.pc = Stage(e, "p_upload", "pt_upload"),
                                  !.files = IF has_zip THEN {"zip"} ELSE {}])
       ELSE Ends(e, _update_task(execs[e].task, Failed("provider_error")))

----------------------------------------------------------------------------
(* _lifecycle_parsing after the provider call *)

ParsingUpload(e) ==
    /\ At(e, "p_upload")
    /\ Goes(e, _update_task(execs[e].task, [progress |-> 90]),
            [execs[e] EXCEPT !.pc = "p_complete"])

ParsingOutputs(files) ==
    [ status                 |-> "completed",
      markdown_output_s3_key |-> "output.md",
      markdown_output_url    |-> get_presigned_url("output.md"),
      zip_output_s3_key      |-> IF "zip" \in files THEN "output.zip" ELSE NULL,
      zip_output_url         |-> IF "zip" \in files
                                 THEN get_presigned_url("output.zip") ELSE NULL,
      error                  |-> NULL ]

ParsingComplete(e) ==
    /\ At(e, "p_complete")
    /\ Ends(e, _update_task(execs[e].task, ParsingOutputs(execs[e].files)))

----------------------------------------------------------------------------
(* _lifecycle_parse_and_translate after the parse *)

\* progress=50
ParseTranslateUpload(e) ==
    /\ At(e, "pt_upload")
    /\ Goes(e, _update_task(execs[e].task, [progress |-> 50]),
            [execs[e] EXCEPT !.pc = IF "zip" \in execs[e].files
                                    THEN "pt_zip" ELSE "pt_markdown"])

\* zip_output_s3_key, zip_output_url
ParseTranslateZip(e) ==
    /\ At(e, "pt_zip")
    /\ Goes(e, _update_task(execs[e].task,
                            [zip_output_s3_key |-> "original.zip",
                             zip_output_url |-> get_presigned_url("original.zip")]),
            [execs[e] EXCEPT !.pc = "pt_markdown"])

\* progress=55
ParseTranslateMarkdown(e) ==
    /\ At(e, "pt_markdown")
    /\ Goes(e, _update_task(execs[e].task, [progress |-> 55]),
            [execs[e] EXCEPT !.pc = "pt_translate", !.last_progress = 0])

\* overall_progress values translate_markdown emits, in this order
MarkdownEvents == {10, 20, 55, 90, 100}

\* handle_translate_progress: 55 + int(progress * 0.35)
TranslateProgress(progress) == 55 + ((progress * 35) \div 100)

ParseTranslateProgress(e, progress) ==
    /\ At(e, "pt_translate")
    /\ progress > execs[e].last_progress
    /\ Goes(e, _update_task(execs[e].task,
                            [progress |-> TranslateProgress(progress)]),
            [execs[e] EXCEPT !.last_progress = progress])

\* translate_markdown returned: failure, or (after its event 100) progress=90
ParseTranslateReturned(e, success) ==
    /\ At(e, "pt_translate")
    /\ IF success
       THEN /\ execs[e].last_progress = 100
            /\ Goes(e, _update_task(execs[e].task, [progress |-> 90]),
                    [execs[e] EXCEPT !.pc = "pt_complete"])
       ELSE Ends(e, _update_task(execs[e].task, Failed("provider_error")))

ParseTranslateOutputs ==
    [ status                     |-> "completed",
      markdown_output_s3_key     |-> "original.md",
      markdown_output_url        |-> get_presigned_url("original.md"),
      translated_markdown_s3_key |-> "translated.md",
      translated_markdown_url    |-> get_presigned_url("translated.md"),
      error                      |-> NULL ]

ParseTranslateComplete(e) ==
    /\ At(e, "pt_complete")
    /\ Ends(e, _update_task(execs[e].task, ParseTranslateOutputs))

----------------------------------------------------------------------------
Next ==
    \/ \E id \in TaskIds, inp \in scenario.inputs, f \in scenario.uploads :
         create_task(id, inp, f)
    \/ \E u \in scenario.readers : list_tasks(u)
    \/ \E u \in Users : ExpireUserTasks(u)
    \/ \E id \in TaskIds, u \in Users : retry_task(id, u)
    \/ \E id \in TaskIds, u \in Users : cancel_task(id, u)
    \/ \E id \in TaskIds, u \in Users, ok \in BOOLEAN : delete_task(id, u, ok)
    \/ \E c \in BOOLEAN : update_s3_settings(c)
    \/ \E n \in scenario.new_caps : update_performance_settings(n)
    \/ MonitorPick
    \/ MonitorDequeue
    \/ MonitorSchedule
    \/ \E e \in ExecIds :
         \/ AcquireSemaphore(e)
         \/ ObserveCancel(e)
         \/ LifecycleBegin(e)
         \/ LifecycleMissingS3(e)
         \/ TranslationDownload(e)
         \/ \E ok \in scenario.answers : TranslationResolve(e, ok)
         \/ TranslationPrepare(e)
         \/ \E again \in scenario.redis_errors :
              TranslationPrepareRedisError(e, again)
         \/ \E o \in scenario.events, m \in scenario.answers :
              TranslationProgress(e, o, m)
         \/ \E ok \in scenario.answers : TranslationReturned(e, ok)
         \/ \E f \in scenario.files : TranslationUpload(e, f)
         \/ TranslationComplete(e)
         \/ ParsePrepare(e)
         \/ \E ok \in scenario.answers : ParseSubmit(e, ok)
         \/ \E ok \in scenario.answers : ParseSubmitted(e, ok)
         \/ \E st \in PollStatus, p \in scenario.events : ParsePoll(e, st, p)
         \/ ParseFailed(e)
         \/ \E md \in scenario.answers, z \in BOOLEAN : ParseResult(e, md, z)
         \/ ParsingUpload(e)
         \/ ParsingComplete(e)
         \/ ParseTranslateUpload(e)
         \/ ParseTranslateZip(e)
         \/ ParseTranslateMarkdown(e)
         \/ \E p \in MarkdownEvents : ParseTranslateProgress(e, p)
         \/ \E ok \in scenario.answers : ParseTranslateReturned(e, ok)
         \/ ParseTranslateComplete(e)

Spec == Init /\ [][Next]_vars

----------------------------------------------------------------------------
(* Properties *)

\* executions of id that hold a permit and have not been sent cancellation
Uncancelled(id) ==
    {e \in DOMAIN execs : execs[e].task = id /\ execs[e].permit
                          /\ ~execs[e].cancelled}

\* the artifact key columns of a row, and the output columns retry is to clear
KeyFields ==
    {"input_s3_key", "output_s3_key", "mono_output_s3_key", "dual_output_s3_key",
     "glossary_output_s3_key", "zip_output_s3_key", "markdown_output_s3_key",
     "translated_markdown_s3_key"}

OutputFields ==
    {"output_s3_key", "output_url", "mono_output_s3_key", "mono_output_url",
     "dual_output_s3_key", "dual_output_url", "glossary_output_s3_key",
     "glossary_output_url", "zip_output_s3_key", "zip_output_url",
     "markdown_output_s3_key", "markdown_output_url",
     "translated_markdown_s3_key", "translated_markdown_url"}

NonNullKeys(row) == {row[f] : f \in KeyFields} \ {NULL}

\* C1: a task whose stored status is completed, failed or canceled keeps that
\* status in every step that is not retry_task on that task.
C1_TerminalStatusKeptUntilRetry ==
    [][\A id \in DOMAIN tasks :
          (/\ tasks[id].status \in Terminal
           /\ id \in DOMAIN tasks'
           /\ tasks'[id].status # tasks[id].status)
          => \E u \in Users : retry_task(id, u)]_vars

\* C2: the handle map never has more entries than max_concurrent_tasks.
C2_HandleMapWithinCap == Cardinality(DOMAIN jobs) <= max_concurrent_tasks

\* a create or retry found the map full: the id was queued and got no handle
C2_Witness ==
    /\ returned.op \in {"create_task", "retry_task"}
    /\ returned.task_id \notin DOMAIN jobs
    /\ Queued(returned.task_id)
    /\ Cardinality(DOMAIN jobs) = max_concurrent_tasks

\* C3: at most one execution per task id is running without having been sent
\* cancellation.
C3_OneUncancelledExecutionPerId ==
    \A id \in TaskIds : Cardinality(Uncancelled(id)) <= 1

\* C4: cancel_task on an existing task leaves status canceled, progress 0, no
\* handle for the id, and the three priority lists as they were.
C4_CancelResult ==
    [][\A id \in TaskIds, u \in Users :
          cancel_task(id, u)
          => /\ tasks'[id].status = "canceled"
             /\ tasks'[id].progress = 0
             /\ id \notin DOMAIN jobs'
             /\ queues' = queues]_vars

\* cancel_task has just returned for a task that was running with progress
\* written and whose id is in a priority list
C4_Witness ==
    /\ returned.op = "cancel_task"
    /\ Queued(returned.task_id)
    /\ tasks[returned.task_id].status = "canceled"
    /\ \E e \in DOMAIN execs : /\ execs[e].task = returned.task_id
                               /\ execs[e].cancelled
                               /\ execs[e].last_progress > 0

\* C5: after cancel_task or delete_task the id is in none of the three
\* priority lists.
C5_NotQueuedAfterCancelOrDelete ==
    [][\A id \in TaskIds, u \in Users :
          (cancel_task(id, u) \/ \E ok \in BOOLEAN : delete_task(id, u, ok))
          => ~(Queued(id))']_vars

\* C6: delete_task by a user who does not own the task returns not_found and
\* leaves the row, the handle map, the executions and the lists as they were.
C6_DeleteByOtherUserChangesNothing ==
    [][\A id \in DOMAIN tasks, u \in Users, ok \in BOOLEAN :
          (tasks[id].owner_id # u /\ delete_task(id, u, ok))
          => /\ returned'.value = "not_found"
             /\ tasks' = tasks
             /\ jobs' = jobs
             /\ execs' = execs
             /\ queues' = queues]_vars

\* C7: retry_task leaves the row queued with progress 0, no error and every
\* output key and URL cleared.
C7_RetryClearsEveryOutput ==
    [][\A id \in TaskIds, u \in Users :
          retry_task(id, u)
          => /\ tasks'[id].status = "queued"
             /\ tasks'[id].progress = 0
             /\ tasks'[id].error = NULL
             /\ \A f \in OutputFields : tasks'[id][f] = NULL]_vars

\* C8 as stated: delete_task by the owner removes the row and every list
\* entry, and sends one delete per distinct non-null key and one prefix delete
\* for the output directory.
C8_DeleteByOwnerRemovesAll ==
    [][\A id \in DOMAIN tasks, u \in Users, ok \in BOOLEAN :
          (tasks[id].owner_id = u /\ delete_task(id, u, ok))
          => /\ id \notin DOMAIN tasks'
             /\ ~(Queued(id))'
             /\ \A k \in NonNullKeys(tasks[id]) :
                   CopiesIn(<<"delete_file", id, k>>, s3_calls') = 1
             /\ CopiesIn(<<"delete_prefix", id, "outputs">>, s3_calls') = 1]_vars

\* C8 amended: the row and the list entries are removed in every case; the
\* blob deletes are sent when the blob-store settings are complete and the
\* client could be built, and no blob call is sent otherwise.
C8_DeleteByOwnerWithClient ==
    [][\A id \in DOMAIN tasks, u \in Users, ok \in BOOLEAN :
          (tasks[id].owner_id = u /\ delete_task(id, u, ok))
          => /\ id \notin DOMAIN tasks'
             /\ ~(Queued(id))'
             /\ returned'.value = "deleted"
             /\ IF s3_configured /\ ok
                THEN /\ \A k \in NonNullKeys(tasks[id]) :
                           CopiesIn(<<"delete_file", id, k>>, s3_calls') = 1
                     /\ CopiesIn(<<"delete_prefix", id, "outputs">>, s3_calls') = 1
                     /\ \A c \in BagToSet(s3_calls') :
                           c[1] = "delete_file" => c[3] \in NonNullKeys(tasks[id])
                ELSE s3_calls' = EmptyBag]_vars

\* the owner's delete went through with a client: the input, the outputs of a
\* finished task and the output directory were deleted, each once
C8_Witness ==
    /\ returned.op = "delete_task"
    /\ returned.value = "deleted"
    /\ returned.task_id \notin DOMAIN tasks
    /\ CopiesIn(<<"delete_prefix", returned.task_id, "outputs">>, s3_calls) = 1
    /\ CopiesIn(<<"delete_file", returned.task_id, "input">>, s3_calls) = 1
    /\ Cardinality(BagToSet(s3_calls)) >= 4

\* C9: an id whose row is gone never gets a row again, and an execution that
\* starts for an id without a row ends there: nothing is written, the
\* execution is gone, the id has no handle and the permit is back.
C9_NoRowStaysGone ==
    [][/\ \A id \in issued : id \notin DOMAIN tasks => id \notin DOMAIN tasks'
       /\ \A e \in ExecIds :
             (LifecycleBegin(e) /\ execs[e].task \notin DOMAIN tasks)
             => /\ tasks' = tasks
                /\ e \notin DOMAIN execs'
                /\ execs[e].task \notin DOMAIN jobs'
                /\ task_semaphore' = task_semaphore + 1
                /\ returned'.value = "no_row"]_vars

\* an execution started for a deleted task has just returned from its first
\* statement, and every permit is free
C9_Witness ==
    /\ returned.op = "_lifecycle"
    /\ returned.value = "no_row"
    /\ returned.at = "begin"
    /\ returned.task_id \in issued \ DOMAIN tasks
    /\ returned.task_id \notin DOMAIN jobs
    /\ task_semaphore = max_concurrent_tasks

\* C10: a row with status completed has progress 100 and completed_at set.
C10_CompletedIsFull ==
    \A id \in DOMAIN tasks :
       tasks[id].status = "completed"
       => tasks[id].progress = 100 /\ tasks[id].completed_at # <<>>

\* an execution has just written completed
C10_Witness ==
    /\ returned.op = "_lifecycle"
    /\ returned.value = "done"
    /\ returned.task_id \in DOMAIN tasks
    /\ tasks[returned.task_id].status = "completed"
    /\ tasks[returned.task_id].completed_at # <<>>

C12_ProgressNeverDecreases ==
    [][\A id \in DOMAIN tasks :
          (/\ id \in DOMAIN tasks'
           /\ tasks[id].status = "processing"
           /\ tasks'[id].status = "processing")
          => tasks'[id].progress >= tasks[id].progress]_vars

\* C13: a stored progress of 100 implies status completed.
C13_FullProgressOnlyCompleted ==
    \A id \in DOMAIN tasks :
       tasks[id].progress = 100 => tasks[id].status = "completed"

\* position of a tier in the order high, normal, low
Rank(p) == IF p = "high" THEN 1 ELSE IF p = "normal" THEN 2 ELSE 3

\* C15: the monitor picks the highest tier it sees nonempty, and the pop that
\* follows takes its id from the picked tier and from no other.
C15_PickHighestTier ==
    [][/\ MonitorPick
          => /\ Len(queues[monitor'.priority]) > 0
             /\ \A p \in PrioritySet :
                   Rank(p) < Rank(monitor'.priority) => Len(queues[p]) = 0
       /\ (MonitorDequeue /\ monitor'.pc = "schedule")
          => /\ InSeq(queues[monitor.priority], monitor'.task_id)
             /\ \A p \in PrioritySet \ {monitor.priority} :
                   queues'[p] = queues[p]]_vars

\* the monitor has popped an id from tasks:high while a lower tier held one
C15_Witness ==
    /\ monitor.pc = "schedule"
    /\ monitor.priority = "high"
    /\ Len(queues["normal"]) + Len(queues["low"]) > 0

\* C18: create_task without a configured blob store returns the
\* not-configured error and stores, queues, sends and starts nothing.
C18_CreateFailsUnconfigured ==
    [][\A id \in TaskIds, inp \in scenario.inputs, f \in BOOLEAN :
          (~s3_configured /\ create_task(id, inp, f))
          => /\ returned'.value = "MissingS3Configuration"
             /\ tasks' = tasks
             /\ queues' = queues
             /\ jobs' = jobs
             /\ execs' = execs
             /\ sent' = {}]_vars

\* C20: an unfiltered list_tasks returns the rows the owner has at that
\* moment.
C20_ListReflectsRows ==
    [][\A u \in Users : list_tasks(u) => returned'.value = OwnedBy(u)]_vars

-----------------------------------------------------------------------------
(* The priority lists on their own: enqueue_task and dequeue_task applied in
   any order to any tier.  The k-th id pushed is the number k, so that the
   order of arrival can be read off the ids. *)

MaxEnqueues == 4

QueueInit ==
    /\ tasks = Empty
    /\ issued = {}
    /\ queues = [p \in PrioritySet |-> <<>>]
    /\ jobs = Empty
    /\ execs = Empty
    /\ scenario = [name |-> "queues"]
    /\ max_concurrent_tasks = 1
    /\ task_semaphore = 1
    /\ monitor = [pc |-> "sleep", priority |-> NULL, task_id |-> NULL]
    /\ s3_configured = TRUE
    /\ s3_calls = EmptyBag
    /\ clock = 1
    /\ requests = 0
    /\ returned = NoReturn
    /\ user_tasks_cache = [u \in Users |-> NoList]
    /\ sent = {}

QueueRest ==
    UNCHANGED <<tasks, issued, jobs, execs, scenario, max_concurrent_tasks,
                task_semaphore, monitor, s3_configured, s3_calls, clock,
                user_tasks_cache, sent>>

\* RedisClient.enqueue_task of the next id
QueueEnqueue(priority) ==
    /\ requests < MaxEnqueues
    /\ requests' = requests + 1
    /\ queues' = enqueue_task(queues, requests + 1, priority)
    /\ returned' = [op |-> "enqueue_task", task_id |-> requests + 1,
                    value |-> "pushed", at |-> priority]
    /\ QueueRest

\* RedisClient.dequeue_task
QueueDequeue(priority) ==
    /\ queues' = dequeue_task(queues, priority)
    /\ returned' = [op |-> "dequeue_task",
                    task_id |-> dequeue_task_id(queues, priority),
                    value |-> IF Len(queues[priority]) = 0
                              THEN "empty" ELSE "popped",
                    at |-> priority]
    /\ UNCHANGED requests
    /\ QueueRest

QueueNext ==
    \/ \E p \in PrioritySet : QueueEnqueue(p)
    \/ \E p \in PrioritySet : QueueDequeue(p)

QueueSpec == QueueInit /\ [][QueueNext]_vars

\* the ids held by a list
Held(s) == {s[i] : i \in 1..Len(s)}

\* C14: within one tier the id dequeued is the one that was enqueued first
\* among those the tier holds; an empty tier gives none.
C14_FifoWithinTier ==
    [][\A p \in PrioritySet :
          QueueDequeue(p)
          => IF Len(queues[p]) = 0
             THEN returned'.value = "empty" /\ queues' = queues
             ELSE /\ returned'.task_id = Min(Held(queues[p]))
                  /\ Held(queues'[p]) = Held(queues[p]) \ {returned'.task_id}
                  /\ \A r \in PrioritySet \ {p} : queues'[r] = queues[r]]_vars

\* a tier that held at least three ids gave back the oldest and keeps the
\* younger ones
C14_Witness ==
    /\ returned.op = "dequeue_task"
    /\ returned.value = "popped"
    /\ Len(queues[returned.at]) >= 2
    /\ \A k \in Held(queues[returned.at]) : k > returned.task_id

-----------------------------------------------------------------------------
(* Startup after a crash or restart: the rows, the priority lists and the
   cached lists are what the previous process left in the database and in
   Redis, the new process holds no handle and no execution, and the lifespan
   hook runs resume_stalled_tasks before the monitor starts and before any
   request is served. *)

MaxRestarts == 2

StoredIds == {"t1", "t2"}

StoredProgress(status) ==
    IF status = "processing" THEN 50
    ELSE IF status = "completed" THEN 100 ELSE 0

\* a row as an earlier process left it
StoredRow(owner, priority, status) ==
    SetAttrs(TranslationTask(owner, priority, "translation"),
             [status |-> status, progress |-> StoredProgress(status)])

StoredRows ==
    { StoredRow(o, p, st) :
        o \in Users, p \in {"high", "normal"},
        st \in {"queued", "processing", "completed", "failed", "canceled"} }

\* the ids of I on their own tiers, t1 pushed before t2
StoredQueues(rows, I) ==
    [p \in PrioritySet |->
        SelectSeq(<<"t2", "t1">>,
                  LAMBDA id : id \in I /\ rows[id].priority = p)]

RecoveryInit ==
    /\ \E D \in SUBSET StoredIds :
          /\ tasks \in [D -> StoredRows]
          /\ issued = D
          /\ \E I \in SUBSET D : queues = StoredQueues(tasks, I)
    /\ jobs = Empty
    /\ execs = Empty
    /\ scenario = [name |-> "recovery"]
    /\ max_concurrent_tasks = 1
    /\ task_semaphore = 1
    /\ monitor = [pc |-> "sleep", priority |-> NULL, task_id |-> NULL]
    /\ s3_configured = TRUE
    /\ s3_calls = EmptyBag
    /\ clock = 1
    /\ requests = 0
    /\ returned = NoReturn
    /\ user_tasks_cache \in
          [Users -> {NoList} \cup {CachedList(ids) : ids \in SUBSET StoredIds}]
    /\ \A u \in Users :
          user_tasks_cache[u].ids \subseteq OwnedBy(u)
    /\ sent = {}

\* variant of StalledTasks: queued rows are taken for stalled as well
StalledOrQueuedTasks(rows) ==
    {id \in DOMAIN rows : rows[id].status \in {"processing", "queued"}}

\* select(TranslationTask).where(TranslationTask.status == "processing")
StalledTasks(rows) ==
    {id \in DOMAIN rows : rows[id].status = "processing"}

\* variant of ResumedRow: the progress of the interrupted run is kept
ResumedRowKeepsProgress(row) ==
    [row EXCEPT !.status = "queued"]

\* current_task.status = "queued"; current_task.progress = 0
ResumedRow(row) ==
    [row EXCEPT !.status = "queued", !.progress = 0]

\* the orders in which the query may hand back the rows of S
Orders(S) ==
    {o \in [1..Cardinality(S) -> S] :
        \A i, j \in 1..Cardinality(S) : o[i] = o[j] => i = j}

RECURSIVE EnqueueAll(_, _, _)
\* redis.enqueue_task(task.id, task.priority) for each row of order in turn
EnqueueAll(q, rows, order) ==
    IF Len(order) = 0 THEN q
    ELSE EnqueueAll(enqueue_task(q, Head(order), rows[Head(order)].priority),
                    rows, Tail(order))

\* TaskManager.resume_stalled_tasks, no step of it failing
resume_stalled_tasks ==
    /\ requests < MaxRestarts
    /\ requests' = requests + 1
    /\ LET stalled == StalledTasks(tasks) IN
       /\ tasks' = [id \in DOMAIN tasks |->
                       IF id \in stalled THEN ResumedRow(tasks[id])
                       ELSE tasks[id]]
       /\ \E order \in Orders(stalled) :
             queues' = EnqueueAll(queues, tasks, order)
       /\ user_tasks_cache' =
             [u \in Users |->
                 IF \E id \in stalled : tasks[id].owner_id = u
                 THEN NoList ELSE user_tasks_cache[u]]
       /\ sent' = {task_update(id, tasks'[id]) : id \in stalled}
       /\ returned' = [op |-> "resume_stalled_tasks", task_id |-> NULL,
                       value |-> Cardinality(stalled), at |-> NULL]
    /\ UNCHANGED <<issued, jobs, execs, scenario, max_concurrent_tasks,
                   task_semaphore, monitor, s3_configured, s3_calls, clock>>

\* the steps of one row's recovery that may raise: the commit, the first of the
\* cache calls, the push on the priority list
ResumeSteps == {"write", "cache", "enqueue"}

\* variant of Reached: the row that raises ends the scan
ReachedUntilError(order, bad) ==
    {order[i] : i \in {k \in 1..Len(order) :
                          \A j \in 1..(k - 1) : order[j] # bad}}

\* the rows the for loop comes to: the except clause of a row ends with
\* continue
Reached(order, bad) == {order[i] : i \in 1..Len(order)}

\* TaskManager.resume_stalled_tasks, the recovery of the row bad raising at
\* step
resume_stalled_tasks_raising(bad, step) ==
    /\ requests < MaxRestarts
    /\ requests' = requests + 1
    /\ bad \in StalledTasks(tasks)
    /\ \E order \in Orders(StalledTasks(tasks)) :
         LET reached == Reached(order, bad)
             written == {id \in reached : id # bad \/ step # "write"}
             told    == {id \in written : id # bad \/ step # "cache"}
             pushed  == {id \in written : id # bad \/ step = "cache"}
         IN /\ tasks' = [id \in DOMAIN tasks |->
                            IF id \in written THEN ResumedRow(tasks[id])
                            ELSE tasks[id]]
            /\ queues' = EnqueueAll(queues, tasks,
                                    SelectSeq(order, LAMBDA id : id \in pushed))
            /\ user_tasks_cache' =
                  [u \in Users |->
                      IF \E id \in told : tasks[id].owner_id = u
                      THEN NoList ELSE user_tasks_cache[u]]
            /\ sent' = {task_update(id, tasks'[id]) : id \in told}
            /\ returned' = [op |-> "resume_stalled_tasks", task_id |-> bad,
                            value |-> Cardinality(pushed), at |-> step]
    /\ UNCHANGED <<issued, jobs, execs, scenario, max_concurrent_tasks,
                   task_semaphore, monitor, s3_configured, s3_calls, clock>>

RecoveryNext ==
    \/ resume_stalled_tasks
    \/ \E bad \in StoredIds, step \in ResumeSteps :
         resume_stalled_tasks_raising(bad, step)

RecoverySpec == RecoveryInit /\ [][RecoveryNext]_vars

\* how often a list holds an id
Occurrences(s, v) == Len(SelectSeq(s, LAMBDA x : x = v))

\* C16: resume_stalled_tasks leaves every row that was processing queued with
\* progress 0 and pushed once on the list of its priority; every other row is
\* unchanged and is pushed on no list.
C16_ResumeRequeuesProcessing ==
    [][resume_stalled_tasks
       => /\ DOMAIN tasks' = DOMAIN tasks
          /\ \A id \in DOMAIN tasks :
                IF tasks[id].status = "processing"
                THEN /\ tasks'[id] =
                           [tasks[id] EXCEPT !.status = "queued", !.progress = 0]
                     /\ InSeq(queues'[tasks[id].priority], id)
                     /\ \A p \in PrioritySet :
                           Occurrences(queues'[p], id) =
                              Occurrences(queues[p], id)
                              + (IF p = tasks[id].priority THEN 1 ELSE 0)
                ELSE /\ tasks'[id] = tasks[id]
                     /\ \A p \in PrioritySet :
                           Occurrences(queues'[p], id) =
                              Occurrences(queues[p], id)]_vars

\* a run resumed one task and passed over a completed one
C16_Witness ==
    /\ returned.op = "resume_stalled_tasks"
    /\ returned.at = NULL
    /\ returned.value = 1
    /\ \E id \in DOMAIN tasks :
          /\ tasks[id].status = "queued"
          /\ task_update(id, tasks[id]) \in sent
          /\ InSeq(queues[tasks[id].priority], id)
    /\ \E id \in DOMAIN tasks :
          tasks[id].status = "completed" /\ ~Queued(id)

\* C17: a run of resume_stalled_tasks that finds no processing row changes no
\* row, no list and no cached list, and sends nothing.
C17_ResumeTwiceChangesNothing ==
    [][(/\ resume_stalled_tasks
        /\ \A id \in DOMAIN tasks : tasks[id].status # "processing")
       => /\ tasks' = tasks
          /\ queues' = queues
          /\ user_tasks_cache' = user_tasks_cache
          /\ sent' = {}
          /\ returned'.value = 0]_vars

\* the second run has found nothing, after a first run that pushed an id the
\* list already held
C17_Witness ==
    /\ returned.op = "resume_stalled_tasks"
    /\ returned.at = NULL
    /\ returned.value = 0
    /\ requests = 2
    /\ sent = {}
    /\ \E id \in DOMAIN tasks :
          /\ tasks[id].status = "queued"
          /\ Occurrences(queues[tasks[id].priority], id) = 2

-----------------------------------------------------------------------------
(* Tasks that are created and then left alone: the blob store is configured,
   the provider succeeds, and nobody cancels, retries or deletes.  The monitor
   and every execution keep running, so each of their steps is taken once it
   stays enabled. *)

MaxCreates == 3

LiveIds == {"t1", "t2", "t3"}

LiveScenario ==
    [ name |-> "created", cap |-> 1, ids |-> LiveIds,
      inputs |-> {[owner |-> "u1", priority |-> "normal",
                   task_type |-> "translation"]},
      requests |-> MaxCreates,
      answers |-> {TRUE}, events |-> {100}, files |-> {{"mono", "dual"}},
      uploads |-> {TRUE}, readers |-> {} ]

LiveInit ==
    /\ tasks = Empty
    /\ issued = {}
    /\ queues = [p \in PrioritySet |-> <<>>]
    /\ jobs = Empty
    /\ execs = Empty
    /\ scenario = LiveScenario
    /\ max_concurrent_tasks = scenario.cap
    /\ task_semaphore = max_concurrent_tasks
    /\ monitor = [pc |-> "sleep", priority |-> NULL, task_id |-> NULL]
    /\ s3_configured = TRUE
    /\ s3_calls = EmptyBag
    /\ clock = 1
    /\ requests = 0
    /\ returned = NoReturn
    /\ user_tasks_cache = [u \in Users |-> NoList]
    /\ sent = {}

\* the steps of an execution whose provider calls succeed
LiveStep(e) ==
    \/ AcquireSemaphore(e)
    \/ LifecycleBegin(e)
    \/ TranslationDownload(e)
    \/ TranslationResolve(e, TRUE)
    \/ TranslationPrepare(e)
    \/ TranslationReturned(e, TRUE)
    \/ TranslationUpload(e, {"mono", "dual"})
    \/ TranslationComplete(e)

LiveNext ==
    \/ \E id \in LiveIds, inp \in scenario.inputs : create_task(id, inp, TRUE)
    \/ MonitorPick
    \/ MonitorDequeue
    \/ MonitorSchedule
    \/ \E e \in ExecIds : TranslationProgress(e, 100, FALSE)
    \/ \E e \in ExecIds : LiveStep(e)

LiveSpec ==
    /\ LiveInit
    /\ [][LiveNext]_vars
    /\ WF_vars(MonitorPick)
    /\ WF_vars(MonitorDequeue)
    /\ WF_vars(MonitorSchedule)
    /\ \A e \in ExecIds : WF_vars(LiveStep(e))

\* C19: every task that was created eventually is completed with progress 100
\* and an output reference.
C19_CreatedEventuallyCompletes ==
    \A id \in LiveIds :
       [](id \in DOMAIN tasks
          => <>(/\ id \in DOMAIN tasks
                /\ tasks[id].status = "completed"
                /\ tasks[id].progress = 100
                /\ tasks[id].output_url # NULL))

-----------------------------------------------------------------------------
(* Failure and scheduling properties *)

\* C23 (state part): a row with status failed has progress 0.
C23_FailedHasNoProgress ==
    \A id \in DOMAIN tasks :
       tasks[id].status = "failed" => tasks[id].progress = 0

\* C24: a translation task with status completed has a primary output key.
C24_CompletedTranslationHasOutput ==
    \A id \in DOMAIN tasks :
       (tasks[id].task_type = "translation" /\ tasks[id].status = "completed")
       => tasks[id].output_s3_key # NULL

\* the provider reported success, nothing was uploaded, the task is failed
C24_Witness ==
    /\ returned.op = "_lifecycle"
    /\ returned.at = "t_upload"
    /\ returned.task_id \in DOMAIN tasks
    /\ tasks[returned.task_id].status = "failed"
    /\ tasks[returned.task_id].error = "no_output"
    /\ tasks[returned.task_id].output_s3_key = NULL

\* C29: when a call of _schedule(id) leaves id without a handle, id is on a
\* priority list afterwards, whoever the caller was.
C29_NotStartedStaysQueued ==
    [][/\ (MonitorSchedule /\ monitor.task_id \notin DOMAIN jobs')
          => \E p \in PrioritySet : InSeq(queues'[p], monitor.task_id)
       /\ \A id \in TaskIds :
             (/\ \/ \E inp \in scenario.inputs, f \in BOOLEAN :
                       create_task(id, inp, f)
                 \/ \E u \in Users : retry_task(id, u)
              /\ id \in DOMAIN tasks'
              /\ id \notin DOMAIN jobs')
             => \E p \in PrioritySet : InSeq(queues'[p], id)]_vars

\* C30: every execution that has not been sent cancellation is the one the
\* handle map holds for its task id.
C30_RunningHasItsHandle ==
    \A e \in DOMAIN execs :
       ~execs[e].cancelled
       => /\ execs[e].task \in DOMAIN jobs
          /\ jobs[execs[e].task] = e

\* C21: a step that creates or changes the row of a task leaves no cached
\* list of the owner behind and sends the new row to the owner's channel.
C21_MutationInvalidatesAndNotifies ==
    [][\A id \in TaskIds :
          (/\ id \in DOMAIN tasks'
           /\ id \in DOMAIN tasks => tasks'[id] # tasks[id])
          => /\ ~user_tasks_cache'[tasks'[id].owner_id].cached
             /\ task_update(id, tasks'[id]) \in sent']_vars

\* C22: when a Redis call fails in the tail of an update made by a running
\* execution, the update stands, the task is not failed and the execution is
\* at its next stage.
C22_CacheErrorDoesNotFail ==
    [][\A e \in ExecIds, again \in BOOLEAN :
          TranslationPrepareRedisError(e, again)
          => /\ tasks'[execs[e].task].progress = 30
             /\ tasks'[execs[e].task].status # "failed"
             /\ e \in DOMAIN execs'
             /\ execs'[e].pc = "t_translate"]_vars

-----------------------------------------------------------------------------
(* Paged listing: list_tasks(owner_id, limit=, offset=) without filters over
   a table nobody changes.  The handler list_tasks of the main specification
   is the call with the route's defaults (limit 50, offset 0) on fewer than
   50 rows, where a page is the whole list. *)

MaxLists == 2

ListIds == {"t1", "t2", "t3"}

\* the ids by created_at, newest first
NewestFirst == <<"t3", "t2", "t1">>

Limits == {1, 2}

Offsets == {0, 1}

ListInit ==
    /\ \E D \in SUBSET ListIds :
          tasks \in [D -> {StoredRow(o, "normal", "queued") : o \in Users}]
    /\ issued = DOMAIN tasks
    /\ queues = [p \in PrioritySet |-> <<>>]
    /\ jobs = Empty
    /\ execs = Empty
    /\ scenario = [name |-> "lists"]
    /\ max_concurrent_tasks = 1
    /\ task_semaphore = 1
    /\ monitor = [pc |-> "sleep", priority |-> NULL, task_id |-> NULL]
    /\ s3_configured = TRUE
    /\ s3_calls = EmptyBag
    /\ clock = 1
    /\ requests = 0
    /\ returned = NoReturn
    /\ user_tasks_cache = [u \in Users |-> [cached |-> FALSE, ids |-> <<>>]]
    /\ sent = {}

\* tasks[offset:offset + limit]; .offset(offset).limit(limit)
Page(s, limit, offset) ==
    IF offset >= Len(s) THEN <<>>
    ELSE SubSeq(s, offset + 1, IF offset + limit <= Len(s)
                               THEN offset + limit ELSE Len(s))

\* where(owner_id == owner_id).order_by(created_at.desc())
OwnedNewestFirst(owner_id) ==
    SelectSeq(NewestFirst, LAMBDA id : id \in OwnedBy(owner_id))

\* the cached ids that get_task still finds
CachedRows(owner_id) ==
    SelectSeq(user_tasks_cache[owner_id].ids, LAMBDA id : id \in DOMAIN tasks)

\* what list_tasks returns: a slice of the cached list, or a page of the query
list_page_result(owner_id, limit, offset) ==
    IF user_tasks_cache[owner_id].cached
    THEN Page(CachedRows(owner_id), limit, offset)
    ELSE Page(OwnedNewestFirst(owner_id), limit, offset)

\* TaskManager.list_tasks(owner_id, limit=limit, offset=offset); on a miss the
\* page that was queried is what cache_user_tasks stores
list_tasks_page(owner_id, limit, offset) ==
    /\ requests < MaxLists
    /\ requests' = requests + 1
    /\ returned' = [op |-> "list_tasks", task_id |-> NULL,
                    value |-> list_page_result(owner_id, limit, offset),
                    at |-> owner_id]
    /\ user_tasks_cache' =
         IF user_tasks_cache[owner_id].cached THEN user_tasks_cache
         ELSE [user_tasks_cache EXCEPT
                 ![owner_id] = [cached |-> TRUE,
                                ids |-> list_page_result(owner_id, limit, offset)]]
    /\ UNCHANGED <<tasks, issued, queues, jobs, execs, task_semaphore, monitor,
                   s3_configured, s3_calls, clock, max_concurrent_tasks,
                   scenario, sent>>

\* the TTL of user_tasks:{owner} runs out
ExpirePage(owner_id) ==
    /\ user_tasks_cache[owner_id].cached
    /\ user_tasks_cache' =
         [user_tasks_cache EXCEPT ![owner_id] = [cached |-> FALSE, ids |-> <<>>]]
    /\ returned' = NoReturn
    /\ UNCHANGED <<tasks, issued, queues, jobs, execs, task_semaphore, monitor,
                   s3_configured, s3_calls, clock, requests,
                   max_concurrent_tasks, scenario, sent>>

ListNext ==
    \/ \E u \in Users, l \in Limits, o \in Offsets : list_tasks_page(u, l, o)
    \/ \E u \in Users : ExpirePage(u)

ListSpec == ListInit /\ [][ListNext]_vars

\* C25: an unfiltered list(owner, limit, offset) returns positions offset up
\* to offset + limit of the owner's tasks, newest first, from the cache as
\* from the store.
C25_ListReturnsThePage ==
    [][\A u \in Users, l \in Limits, o \in Offsets :
          list_tasks_page(u, l, o)
          => returned'.value = Page(OwnedNewestFirst(u), l, o)]_vars

\* the permits of the semaphore: those free and those held by executions
Permits(free, ex) ==
    free + Cardinality({e \in DOMAIN ex : ex[e].permit})

\* C26: after the maximum has been set to n through the performance settings,
\* the scheduler's cap and the number of semaphore permits are n.
C26_NewCapTakesEffect ==
    [][\A n \in scenario.new_caps :
          update_performance_settings(n)
          => /\ max_concurrent_tasks' = n
             /\ Permits(task_semaphore', execs') = n]_vars

\* C27: every stored task has one of the three priorities, and no id is on a
\* list other than the three the monitor reads.
C27_PriorityIsATier ==
    /\ \A id \in DOMAIN tasks : tasks[id].priority \in PrioritySet
    /\ \A p \in DOMAIN queues \ PrioritySet : Len(queues[p]) = 0

-----------------------------------------------------------------------------
(* Process startup (lifespan): resume_stalled_tasks under
   asyncio.wait_for(..., timeout=10.0), then start_queue_monitor, then the
   application serves.  The scan advances one await at a time, so that the
   timeout can strike between the commit of a row and its enqueue.  returned
   carries the last line lifespan logged (value), the row the scan is or was
   at between commit and enqueue (task_id) and how the scan came to its end
   (at). *)

Lifespan(phase, task_id, outcome) ==
    [op |-> "lifespan", task_id |-> task_id, value |-> phase, at |-> outcome]

StartupInit ==
    /\ \E D \in SUBSET StoredIds :
          /\ tasks \in [D -> StoredRows]
          /\ issued = D
          /\ \E I \in SUBSET D : queues = StoredQueues(tasks, I)
    /\ jobs = Empty
    /\ execs = Empty
    /\ scenario = [name |-> "startup"]
    /\ max_concurrent_tasks = 1
    /\ task_semaphore = 1
    /\ monitor = [pc |-> "not_started", priority |-> NULL, task_id |-> NULL]
    /\ s3_configured = TRUE
    /\ s3_calls = EmptyBag
    /\ clock = 1
    /\ requests = 0
    /\ returned = Lifespan("resuming", NULL, NULL)
    /\ user_tasks_cache = [u \in Users |-> NoList]
    /\ sent = {}

StartupRest ==
    UNCHANGED <<issued, jobs, execs, scenario, max_concurrent_tasks,
                task_semaphore, s3_configured, s3_calls, clock, requests>>

Scanning == returned.op = "lifespan" /\ returned.value = "resuming"

\* the scan takes the next stalled row: status queued, progress 0, commit,
\* then the cache calls and the message
ResumeCommit(id) ==
    /\ Scanning
    /\ returned.task_id = NULL
    /\ id \in StalledTasks(tasks)
    /\ tasks' = [tasks EXCEPT ![id] = ResumedRow(@)]
    /\ user_tasks_cache' =
          invalidate_user_tasks_cache(user_tasks_cache, tasks[id].owner_id)
    /\ sent' = {task_update(id, tasks'[id])}
    /\ returned' = Lifespan("resuming", id, NULL)
    /\ UNCHANGED <<queues, monitor>>
    /\ StartupRest

\* redis.enqueue_task(task.id, task.priority) of the row just committed
ResumeEnqueue ==
    /\ Scanning
    /\ returned.task_id # NULL
    /\ queues' = enqueue_task(queues, returned.task_id,
                              tasks[returned.task_id].priority)
    /\ returned' = Lifespan("resuming", NULL, NULL)
    /\ sent' = {}
    /\ UNCHANGED <<tasks, monitor, user_tasks_cache>>
    /\ StartupRest

\* the scan ends in one of three ways; lifespan logs which and goes on
ScanEnds(outcome) ==
    /\ returned' = Lifespan("resume_over", returned.task_id, outcome)
    /\ sent' = {}
    /\ UNCHANGED <<tasks, queues, monitor, user_tasks_cache>>
    /\ StartupRest

\* no stalled row is left: resume_stalled_tasks returns
ResumeReturns ==
    /\ Scanning
    /\ returned.task_id = NULL
    /\ StalledTasks(tasks) = {}
    /\ ScanEnds("resumed")

\* the database or Redis fails outside the per-row try: the exception is
\* raised again and lifespan catches it
ResumeRaises ==
    /\ Scanning
    /\ ScanEnds("raised")

\* the 10 s are over: wait_for cancels the scan where it is
ResumeTimesOut ==
    /\ Scanning
    /\ ScanEnds("timed_out")

\* variant of StartMonitor: startup goes on only after a scan that returned
StartMonitorAfterResume ==
    /\ returned.op = "lifespan"
    /\ returned.value = "resume_over"
    /\ returned.at = "resumed"
    /\ monitor' = [monitor EXCEPT !.pc = "sleep"]
    /\ returned' = Lifespan("serving", returned.task_id, returned.at)
    /\ sent' = {}
    /\ UNCHANGED <<tasks, queues, user_tasks_cache>>
    /\ StartupRest

\* task_manager.start_queue_monitor(); yield: the application serves
StartMonitor ==
    /\ returned.op = "lifespan"
    /\ returned.value = "resume_over"
    /\ monitor' = [monitor EXCEPT !.pc = "sleep"]
    /\ returned' = Lifespan("serving", returned.task_id, returned.at)
    /\ sent' = {}
    /\ UNCHANGED <<tasks, queues, user_tasks_cache>>
    /\ StartupRest

StartupNext ==
    \/ \E id \in StoredIds : ResumeCommit(id)
    \/ ResumeEnqueue
    \/ ResumeReturns
    \/ ResumeRaises
    \/ ResumeTimesOut
    \/ StartMonitor

StartupSpec == StartupInit /\ [][StartupNext]_vars /\ WF_vars(StartupNext)

\* C28: startup always comes to serve with the monitor started, however the
\* scan ended, and once the scan is over no row and no list is changed by it.
C28_StartupGoesOn ==
    /\ <>(returned.value = "serving" /\ monitor.pc = "sleep")
    /\ [][returned.value # "resuming" => UNCHANGED <<tasks, queues>>]_vars

\* the application serves after a scan that timed out between the commit of
\* one row and its enqueue, with another row still processing
C28_Witness ==
    /\ returned.op = "lifespan"
    /\ returned.value = "serving"
    /\ returned.at = "timed_out"
    /\ monitor.pc = "sleep"
    /\ \E id \in DOMAIN tasks : tasks[id].status = "processing"
    /\ returned.task_id \in DOMAIN tasks
    /\ tasks[returned.task_id].status = "queued"
    /\ ~Queued(returned.task_id)

----------------------------------------------------------------------------
(* The semaphore, the monitor and the executions *)

\* the executions inside "async with self.task_semaphore"
Holders == {e \in DOMAIN execs : execs[e].permit}

\* C31: the executions that hold a semaphore permit, those cancelled but not
\* yet stopped and those whose handle left the map included, number at most
\* max_concurrent_tasks, and every permit not held by a live execution is
\* free again: none is lost when an execution ends.
C31_PermitsWithinCap ==
    /\ Cardinality(Holders) <= max_concurrent_tasks
    /\ task_semaphore >= 0
    /\ Permits(task_semaphore, execs) = max_concurrent_tasks

\* every permit is held, one holder is cancelled and has not stopped yet, and
\* the execution that replaced it waits at the semaphore
C31_Witness ==
    /\ task_semaphore = 0
    /\ \E e \in Holders : execs[e].cancelled
    /\ \E e \in DOMAIN execs :
         /\ ~execs[e].cancelled
         /\ ~execs[e].permit
         /\ execs[e].pc = "new"
         /\ execs[e].task \in DOMAIN jobs

\* C32: a monitor tick cancels no execution and starts none for a task that
\* create or retry has already started: the id it hands to _schedule has no
\* handle, and when the call starts an execution the task is still queued.
C32_TickRestartsNothing ==
    [][MonitorSchedule
       => /\ monitor.task_id \notin DOMAIN jobs
          /\ (monitor.task_id \in DOMAIN tasks /\ jobs' # jobs)
             => tasks[monitor.task_id].status = "queued"]_vars

\* C33: create, retry and the monitor's call of _schedule leave every queued
\* task on one of the three priority lists or with a handle, if it was so
\* before or has just become queued (the id a running tick has popped and not
\* yet handed to _schedule counts as in the middle of that tick).
C33_QueuedStaysListedOrHandled ==
    [][\A id \in DOMAIN tasks' :
          LET Dispatchable(q, j, m) ==
                  \/ \E p \in PrioritySet : InSeq(q[p], id)
                  \/ id \in DOMAIN j
                  \/ m.task_id = id
          IN (/\ \/ MonitorSchedule
                 \/ \E inp \in scenario.inputs, f \in scenario.uploads,
                       new \in TaskIds : create_task(new, inp, f)
                 \/ \E old \in TaskIds, u \in Users : retry_task(old, u)
              /\ tasks'[id].status = "queued"
              /\ (id \in DOMAIN tasks /\ tasks[id].status = "queued")
                 => Dispatchable(queues, jobs, monitor))
             => Dispatchable(queues', jobs', monitor')]_vars

\* C34: a task that is queued without a handle, its start skipped at the cap,
\* eventually has a handle or has left the status queued (the executions end,
\* the monitor keeps ticking, and only MaxCreates ids of one priority arrive).
C34_SkippedIsEventuallyStarted ==
    \A id \in LiveIds :
       []((/\ id \in DOMAIN tasks
           /\ tasks[id].status = "queued"
           /\ id \notin DOMAIN jobs)
          => <>(/\ id \in DOMAIN tasks
                /\ \/ id \in DOMAIN jobs
                   \/ tasks[id].status # "queued"))

-----------------------------------------------------------------------------
(* The monitor loop with failing iterations: the tasks of LiveSpec, a Redis
   call of the iteration that may raise, and the cancellation of the loop's
   task when the event loop shuts down. *)

MonitorAwaits == {"sleep", "dequeue", "schedule"}

MonitorReturns(value) ==
    [op |-> "_queue_monitor_loop", task_id |-> NULL, value |-> value,
     at |-> monitor.pc]

MonitorRest ==
    /\ Quiet
    /\ UNCHANGED <<tasks, issued, queues, jobs, execs, task_semaphore,
                   s3_configured, s3_calls, clock, requests,
                   max_concurrent_tasks, scenario>>

\* variant of MonitorRaises: the error ends the loop
MonitorRaisesAndStops ==
    /\ monitor.pc \in {"sleep", "dequeue"}
    /\ monitor' = [pc |-> "stopped", priority |-> NULL, task_id |-> NULL]
    /\ returned' = MonitorReturns("error")
    /\ MonitorRest

\* llen or rpop of the iteration raises: except Exception, log, sleep(10), and
\* the while loop goes round
MonitorRaises ==
    /\ monitor.pc \in {"sleep", "dequeue"}
    /\ monitor' = [pc |-> "sleep", priority |-> NULL, task_id |-> NULL]
    /\ returned' = MonitorReturns("error")
    /\ MonitorRest

\* the loop's task is cancelled at one of its awaits: except CancelledError,
\* break
MonitorCancelled ==
    /\ monitor.pc \in MonitorAwaits
    /\ monitor' = [pc |-> "stopped", priority |-> NULL, task_id |-> NULL]
    /\ returned' = MonitorReturns("cancelled")
    /\ MonitorRest

MonitorNext ==
    \/ LiveNext
    \/ MonitorRaises
    \/ MonitorCancelled

MonitorSpec ==
    /\ LiveInit
    /\ [][MonitorNext]_vars
    /\ WF_vars(MonitorPick)
    /\ WF_vars(MonitorDequeue)
    /\ WF_vars(MonitorSchedule)
    /\ \A e \in ExecIds : WF_vars(LiveStep(e))

\* C35: an iteration that raises an error other than CancelledError leaves the
\* loop at the top of its next iteration; the loop stops only by being
\* cancelled; and after such an error, with an id waiting on a list, the loop
\* comes to dequeue again unless it is cancelled first.
C35_LoopGoesOnAfterError ==
    /\ [][MonitorRaises => monitor'.pc = "sleep"]_vars
    /\ [][(monitor.pc # "stopped" /\ monitor'.pc = "stopped")
          => MonitorCancelled]_vars
    /\ []((/\ returned.op = "_queue_monitor_loop"
           /\ returned.value = "error"
           /\ TotalQueued > 0)
          => <>(monitor.pc \in {"dequeue", "stopped"}))

\* rpop has just raised while an id waits on its list and a slot is free: the
\* loop is at the top of its next iteration
C35_Witness ==
    /\ returned.op = "_queue_monitor_loop"
    /\ returned.value = "error"
    /\ returned.at = "dequeue"
    /\ monitor.pc = "sleep"
    /\ TotalQueued > 0
    /\ Cardinality(DOMAIN jobs) < max_concurrent_tasks

\* C36: when the recovery of one processing row raises at its commit, at a
\* cache call or at the push, resume_stalled_tasks returns with every other
\* processing row queued with progress 0 and pushed once on the list of its
\* priority, and with every row that was not processing unchanged.
C36_OneFailureStopsNoOtherRow ==
    [][\A bad \in StoredIds, step \in ResumeSteps :
          resume_stalled_tasks_raising(bad, step)
          => /\ returned'.op = "resume_stalled_tasks"
             /\ returned'.value =
                   Cardinality({id \in DOMAIN tasks :
                                   /\ tasks[id].status = "processing"
                                   /\ id # bad \/ step = "cache"})
             /\ \A id \in DOMAIN tasks \ {bad} :
                   IF tasks[id].status = "processing"
                   THEN /\ tasks'[id] =
                              [tasks[id] EXCEPT !.status = "queued",
                                                !.progress = 0]
                        /\ Occurrences(queues'[tasks[id].priority], id) =
                              Occurrences(queues[tasks[id].priority], id) + 1
                   ELSE /\ tasks'[id] = tasks[id]
                        /\ \A p \in PrioritySet :
                              Occurrences(queues'[p], id) =
                                 Occurrences(queues[p], id)]_vars

\* the push of one row has raised after its commit, and the other processing
\* row is queued and on its list
C36_Witness ==
    /\ returned.op = "resume_stalled_tasks"
    /\ returned.at = "enqueue"
    /\ returned.value = 1
    /\ returned.task_id \in DOMAIN tasks
    /\ tasks[returned.task_id].status = "queued"
    /\ ~Queued(returned.task_id)
    /\ \E id \in DOMAIN tasks \ {returned.task_id} :
          /\ tasks[id].status = "queued"
          /\ tasks[id].progress = 0
          /\ task_update(id, tasks[id]) \in sent
          /\ InSeq(queues[tasks[id].priority], id)

\* C37: the step in which an execution observes its cancellation leaves the
\* status and the error of its task as they are (and so writes no failed).
C37_CancelledEndsWithoutFailed ==
    [][\A e \in ExecIds :
          (ObserveCancel(e) /\ execs[e].task \in DOMAIN tasks)
          => /\ execs[e].task \in DOMAIN tasks'
             /\ tasks'[execs[e].task].status = tasks[execs[e].task].status
             /\ tasks'[execs[e].task].error = tasks[execs[e].task].error]_vars

\* an execution that had begun its workflow has ended by cancellation, and
\* its task is canceled without an error
C37_Witness ==
    /\ returned.op = "_lifecycle"
    /\ returned.value = "cancelled"
    /\ returned.at \notin {"new", "begin"}
    /\ returned.task_id \in DOMAIN tasks
    /\ tasks[returned.task_id].status = "canceled"
    /\ tasks[returned.task_id].error = NULL

-----------------------------------------------------------------------------
(* translate_markdown inside two parse_and_translate executions: both tasks
   have been parsed, hold a permit each, and translate their paragraphs
   through the same provider, one call per paragraph in a thread, at most
   max_concurrent_requests of them at a time within one execution. *)

TotalUnits == 3

max_concurrent_requests == 2

\* max_concurrency of the provider both tasks use
ProviderLimit == 2

ChunkIds == {"t1", "t2"}

ChunkScenario ==
    [ name |-> "chunks", cap |-> 2, ids |-> ChunkIds,
      inputs |-> {[owner |-> "u1", priority |-> "normal",
                   task_type |-> "parse_and_translate"]},
      requests |-> MaxRequests,
      answers |-> {TRUE}, events |-> {100}, files |-> {{}},
      uploads |-> {TRUE}, readers |-> {}, redis_errors |-> {},
      new_caps |-> {} ]

ChunkInit ==
    /\ tasks = [id \in ChunkIds |->
                  SetAttrs(TranslationTask("u1", "normal", "parse_and_translate"),
                           [status |-> "processing", progress |-> 55])]
    /\ issued = ChunkIds
    /\ queues = [p \in PrioritySet |->
                   IF p = "normal" THEN <<"t2", "t1">> ELSE <<>>]
    /\ jobs = [id \in ChunkIds |-> IF id = "t1" THEN 1 ELSE 2]
    /\ execs = [e \in {1, 2} |->
                  [NewExec(IF e = 1 THEN "t1" ELSE "t2") EXCEPT
                      !.pc = "pt_translate", !.permit = TRUE,
                      !.task_type = "parse_and_translate",
                      !.has_input = TRUE]]
    /\ scenario = ChunkScenario
    /\ max_concurrent_tasks = scenario.cap
    /\ task_semaphore = 0
    /\ monitor = [pc |-> "sleep", priority |-> NULL, task_id |-> NULL]
    /\ s3_configured = TRUE
    /\ s3_calls = EmptyBag
    /\ clock = 1
    /\ requests = 0
    /\ returned = NoReturn
    /\ user_tasks_cache = [u \in Users |-> NoList]
    /\ sent = {}

\* the calls of _translate_text_with_service running in threads
ProviderCalls ==
    LET Calls(e) == IF e \in DOMAIN execs THEN execs[e].calls ELSE 0
    IN Calls(1) + Calls(2) + Calls(3)

\* the provider_key translate_markdown gets from _lifecycle_parse_and_translate:
\* the call passes none, and the parameter defaults to None
provider_key == NULL

\* _translate_piece_async: the slot of provider_limiter.acquire is taken only
\* "if provider_key"
acquire_provider_slot(key, limit) == key = NULL \/ ProviderCalls < limit

\* progress = 20 + int((units_done / total_units) * 70)
UnitProgress(done) == 20 + ((done * 70) \div TotalUnits)

\* translate_para_at_index: async with para_sem, then the call in a thread
ChunkStart(e) ==
    /\ At(e, "pt_translate")
    /\ execs[e].units_done + execs[e].calls < TotalUnits
    /\ execs[e].calls < max_concurrent_requests
    /\ acquire_provider_slot(provider_key, ProviderLimit)
    /\ GoesSilently(e, [execs[e] EXCEPT !.calls = @ + 1])

\* the call returns or raises: finally units_done += 1 and the progress
\* callback, which is handle_translate_progress and so _update_task
ChunkDone(e) ==
    /\ At(e, "pt_translate")
    /\ execs[e].calls > 0
    /\ Goes(e, _update_task(execs[e].task,
                            [progress |-> TranslateProgress(
                                UnitProgress(execs[e].units_done + 1))]),
            [execs[e] EXCEPT !.calls = @ - 1, !.units_done = @ + 1,
                             !.last_progress =
                                 UnitProgress(execs[e].units_done + 1)])

\* the execution was cancelled while it awaited gather: gather cancels the
\* paragraph tasks, and one that awaited its call gets CancelledError there,
\* which "except Exception" lets pass and "finally" answers with
\* units_done += 1 and the awaited progress callback
ChunkCancelled(e) ==
    /\ e \in DOMAIN execs
    /\ execs[e].cancelled
    /\ execs[e].pc = "pt_translate"
    /\ execs[e].calls > 0
    /\ Goes(e, _update_task(execs[e].task,
                            [progress |-> TranslateProgress(
                                UnitProgress(execs[e].units_done + 1))]),
            [execs[e] EXCEPT !.calls = @ - 1, !.units_done = @ + 1])

ChunkNext ==
    \/ \E id \in ChunkIds, u \in Users : cancel_task(id, u)
    \/ \E id \in ChunkIds, u \in Users : retry_task(id, u)
    \/ \E e \in ExecIds :
         \/ ChunkStart(e)
         \/ ChunkDone(e)
         \/ ChunkCancelled(e)
         \/ /\ e \in DOMAIN execs
            /\ execs[e].units_done = TotalUnits
            /\ ParseTranslateProgress(e, 100)
         \/ ParseTranslateReturned(e, TRUE)
         \/ ParseTranslateComplete(e)
         \/ /\ e \in DOMAIN execs
            /\ execs[e].calls = 0
            /\ ObserveCancel(e)

ChunkSpec == ChunkInit /\ [][ChunkNext]_vars

\* C38: what cancel wrote (canceled, progress 0) and what retry wrote (queued,
\* progress 0) stays in the row while the cancelled execution and the
\* paragraph tasks it spawned come to their end.
C38_CancelledWritesNothing ==
    \A id \in DOMAIN tasks :
        tasks[id].status \in {"canceled", "queued"} => tasks[id].progress = 0

\* C39: the translation calls running against the provider, of all
\* executions together, number at most the provider's limit.
C39_ProviderCallsWithinLimit == ProviderCalls <= ProviderLimit

====
